---- MODULE Spec2Model ----
(***************************************************************************)
(* WiFi-Kids backend: the challenge session state machine                  *)
(* (api/routes/challenge.py), the repositories it calls, the agent router  *)
(* and the aggregate answer evaluation of the agents.                      *)
(*                                                                         *)
(* One challenge row lives in the database.  Every HTTP request owns its   *)
(* own SQLAlchemy session, so a request works on a private copy `ch` of    *)
(* the row and talks to the shared row only through SELECT (load, refresh, *)
(* reload of an expired object) and UPDATE (commit).  Each action below is *)
(* the code between two such database round trips.                         *)
(***************************************************************************)
EXTENDS Integers, Sequences, FiniteSets, TLC

\* ---------------------------------------------------------------- bounds
MaxAttempts  == 3   \* largest CHALLENGE_ATTEMPTS the deployments are configured with
MaxQuestions == 2   \* largest question batch drawn by MockAgent (the code draws 1..3)
MaxAnswers   == 2   \* longest answers list of one submission
MaxContent   == 2   \* number of distinct question texts a generator can produce
NumRequests  == 2   \* request slots that can be in flight at the same time
MaxStr       == 2   \* longest answer text, in characters
MaxOptions   == 2
MaxReply     == 2    \* questions in one reply of the completion service
NumPulls     == 2    \* pull requests of the router
MaxCommands  == 2    \* rows of table commands   \* most options of a question

Requests == 1..NumRequests
Pulls    == 1..NumPulls

\* ------------------------------------------------------ program constants
DEFAULT_TOTAL_REQUIRED == 2   \* routes/challenge.py:195, default session_progress
LANGCHAIN_REQUIRED     == 1   \* langchain_agent.py:280, required_questions

ROUTER_ENABLED          == TRUE      \* core/settings.py:58
ROUTER_PREFER_LLM       == "openai"  \* core/settings.py:59
ROUTER_FALLBACK_TO_MOCK == TRUE      \* core/settings.py:60

Personas == {"tutor", "maternal", "general"}

\* ------------------------------------------------------------ agent router
\* AgentRouter._initialize_agent_configs, in insertion order
AgentConfigs ==
  << [id |-> "tutor_openai",    agent_type |-> "langchain", llm_provider |-> "openai",
      persona |-> "tutor",
      subjects |-> {"math", "science", "english"},
      difficulty_range |-> {"easy", "medium", "hard"}],
     [id |-> "maternal_openai", agent_type |-> "langchain", llm_provider |-> "openai",
      persona |-> "maternal",
      subjects |-> {"math", "history", "literature", "art"},
      difficulty_range |-> {"easy", "medium"}],
     [id |-> "general_openai",  agent_type |-> "langchain", llm_provider |-> "openai",
      persona |-> "general",
      subjects |-> {"math", "history", "geography", "english", "physics",
                    "science", "literature", "art"},
      difficulty_range |-> {"medium", "hard"}],
     [id |-> "strict_openai",   agent_type |-> "langchain", llm_provider |-> "openai",
      persona |-> "tutor",
      subjects |-> {"math", "physics", "science"},
      difficulty_range |-> {"medium", "hard"}],
     [id |-> "mock_fallback",   agent_type |-> "mock",      llm_provider |-> "mock",
      persona |-> "general",
      subjects |-> {"math"},
      difficulty_range |-> {"easy"}] >>

\* an availability check that lets every provider through
_is_llm_available_always(provider, key) == TRUE

\* AgentRouter._is_llm_available; key = bool(OPENAI_API_KEY)
_is_llm_available(provider, key) ==
  IF provider = "mock" THEN TRUE
  ELSE IF provider = "openai" THEN key
  ELSE FALSE

\* create_agent: the LangChain agent raises ValueError without a key and the
\* factory then returns the mock agent
create_agent(agent_type, key) ==
  IF agent_type = "mock" THEN "mock"
  ELSE IF agent_type = "langchain" THEN (IF key THEN "langchain" ELSE "mock")
  ELSE "mock"

\* AgentRouter._initialize_persona_policies, the max_attempts entries
persona_policies(persona) ==
  CASE persona = "tutor"    -> [max_attempts |-> 3]
    [] persona = "maternal" -> [max_attempts |-> 5]
    [] OTHER                -> [max_attempts |-> 4]

\* the values of SubjectType and DifficultyLevel (integrations/types.py)
SubjectType     == {"math", "history", "geography", "english", "physics",
                    "science", "literature", "art"}
DifficultyLevel == {"easy", "medium", "hard"}

\* the values of LLMProvider
LLMProvider == {"openai", "anthropic", "google", "mock"}

\* the filter of select_agent (lines 169-186): persona, subject and difficulty
\* when the context sets them, availability of the provider
matches(c, ctx, key) ==
  /\ c.persona = ctx.persona
  /\ (ctx.subject # "none" => ctx.subject \in c.subjects)
  /\ (ctx.difficulty # "none" => ctx.difficulty \in c.difficulty_range)
  /\ _is_llm_available(c.llm_provider, key)

\* a choice that takes the last of the candidates
first_config_last(configs) == configs[Len(configs)]

\* `preferred_configs[0]`, `non_mock_configs[0]`, `matching_configs[0]`
first_config(configs) == configs[1]

\* lines 189-203 of select_agent: the config selected for ctx among the
\* registry, in registry order; prefer is ROUTER_PREFER_LLM.  The result is
\* the position of the config in the registry, 0 when no config matches.
select_config(ctx, key, prefer) ==
  LET Matches(i)   == matches(AgentConfigs[i], ctx, key)
      Preferred(i) == AgentConfigs[i].llm_provider = prefer
      NonMock(i)   == AgentConfigs[i].llm_provider # "mock"
      registry          == [i \in 1..Len(AgentConfigs) |-> i]
      matching_configs  == SelectSeq(registry, Matches)
      preferred_configs == SelectSeq(matching_configs, Preferred)
      non_mock_configs  == SelectSeq(matching_configs, NonMock)
  IN IF matching_configs # << >>
     THEN IF preferred_configs # << >>
          THEN first_config(preferred_configs)
          ELSE IF non_mock_configs # << >>
               THEN first_config(non_mock_configs)
               ELSE first_config(matching_configs)
     ELSE 0

\* a router that raises whenever no config matches
no_matching_config_raises(fallback, key) == "error"

\* lines 216-220 (and the handler of lines 222-227): the mock agent when
\* ROUTER_FALLBACK_TO_MOCK is set, the ValueError otherwise
no_matching_config(fallback, key) ==
  IF fallback THEN create_agent("mock", key) ELSE "error"

\* AgentRouter.select_agent under the settings enabled = ROUTER_ENABLED and
\* fallback = ROUTER_FALLBACK_TO_MOCK; ctx = [persona, subject, difficulty],
\* "none" for None.  Returns the kind of agent, or "error" when the
\* ValueError is re-raised.
select_agent_under(ctx, key, prefer, enabled, fallback) ==
  IF ~enabled THEN create_agent("mock", key)
  ELSE
    LET selected == select_config(ctx, key, prefer)
    IN IF selected # 0
       THEN create_agent(AgentConfigs[selected].agent_type, key)
       ELSE no_matching_config(fallback, key)

\* select_agent under the settings of core/settings.py
select_agent_for(ctx, key, prefer) ==
  select_agent_under(ctx, key, prefer, ROUTER_ENABLED, ROUTER_FALLBACK_TO_MOCK)

\* select_agent under the configured ROUTER_PREFER_LLM
select_agent(ctx, key) == select_agent_for(ctx, key, ROUTER_PREFER_LLM)

\* ------------------------------------------------------ answer evaluation
\* One submitted answer: the id of the question it names (question i of the
\* current set has id i; MaxQuestions+1 is an id that is in no set) and the
\* score in percent that the per-answer judge (ai_validator.validate_answer,
\* or answer_validator.validate_answer on its failure) gives its value
\* against the current answer key.
AnswerIds    == 1..(MaxQuestions + 1)
AnswerScores == {0, 60, 100}
Answer       == [id : AnswerIds, score : AnswerScores]

\* The answers lists of a submission, up to n answers.  validate_answers adds
\* the scores of the answers up, so the order of a list does not change the
\* verdict: the lists are enumerated with their answers in ascending order.
AnswerRank(a) == a.id * 1000 + a.score

RECURSIVE SeqsUpTo(_, _)
SeqsUpTo(S, n) ==
  IF n = 0 THEN { << >> }
  ELSE LET shorter == SeqsUpTo(S, n - 1)
           longest == { t \in shorter : Len(t) = n - 1 }
       IN shorter \cup
          UNION { { Append(s, x) : x \in { y \in S : s = << >> \/ AnswerRank(s[Len(s)]) <= AnswerRank(y) } }
                  : s \in longest }

AnswerLists == SeqsUpTo(Answer, MaxAnswers)

\* threshold_map of validate_answers, in percent
threshold_map(persona) ==
  CASE persona = "tutor"    -> 80
    [] persona = "maternal" -> 70
    [] OTHER                -> 75

\* the loop of validate_answers: answers naming no question of the payload
\* are skipped, every other answer adds its score
RECURSIVE total_score(_, _)
total_score(payload, answers) ==
  IF answers = << >> THEN 0
  ELSE LET answer == Head(answers)
           rest   == total_score(payload, Tail(answers))
       IN IF answer.id \in 1..payload.questions.n THEN answer.score + rest ELSE rest

\* MockAgent.validate_answers / LangChainAgent.validate_answers:
\* final_score = total_score / total_questions, correct = final_score >= threshold
validate_answers(payload, answers) ==
  LET total_questions == payload.questions.n
  IN IF total_questions > 0
     THEN total_score(payload, answers) >= threshold_map(payload.metadata.persona) * total_questions
     ELSE FALSE


\* ------------------------------------------------------------------ state
VARIABLES
  env,       \* process configuration read at import time (core/settings.py)
  db,        \* the challenge row (db/models.py, class Challenge)
  req,       \* per request slot: position in challenge_answer and its locals
  sessions,  \* number of rows in table sessions (create_session)
  commands,  \* number of grant_session rows in table commands
  gen,       \* the last response of POST /challenge/generate
  call,      \* arguments and result of the function applied by the
             \* function-level specifications (RouterSpec, JudgeSpec, ...)
  delivered_at,  \* the commands (numbered 1..commands in the order of
                 \* created_at) whose delivered_at is set
  pulls      \* per pull request: position in pull_commands and its locals

vars == << env, db, req, sessions, commands, gen, call, delivered_at, pulls >>

NoQuestions == [set |-> 0, n |-> 0]
NoProgress  == [questions_answered_correctly |-> 0,
                total_questions_required     |-> 0,
                questions_attempted          |-> 0]
NoPayload   == [questions |-> NoQuestions, answer_key |-> NoQuestions,
                has_progress |-> FALSE, session_progress |-> NoProgress,
                metadata |-> [persona |-> "none", agent_type |-> "none"]]
NoRow       == [status |-> "none", attempts_left |-> 0, payload |-> NoPayload]

NoResp == [kind |-> "none", attempts_left |-> 0, reason |-> "none",
           progress |-> NoProgress, questions |-> NoQuestions]

\* loaded is the row as get_challenge returned it (line 163) and agent the
\* agent selected at line 184; neither is assigned again by the request
IdleReq == [pc |-> "idle", ch |-> NoRow, aliased |-> FALSE, correct |-> FALSE,
            session_progress |-> NoProgress, n_answers |-> 0, stale |-> FALSE,
            resp |-> NoResp, loaded |-> NoRow, agent |-> "none"]

Terminal == {"passed", "failed", "expired"}

\* no generate request answered yet
NoGen == [status |-> 0, persona |-> "none"]

\* no function under check: the state-machine specifications leave call alone
NoCall == [fn |-> "none"]

\* a pull request that has not started: cmds is the list read by
\* list_pending_for_router, out the response
IdlePull == [pc |-> "idle", cmds |-> {}, out |-> {}]

Init ==
  /\ env \in [openai_key : BOOLEAN, challenge_attempts : 1..MaxAttempts]
  /\ db = NoRow
  /\ req = [r \in Requests |-> IdleReq]
  /\ sessions = 0
  /\ commands = 0
  /\ gen = NoGen
  /\ call = NoCall
  /\ delivered_at = {}
  /\ pulls = [p \in Pulls |-> IdlePull]

\* the submissions of Spec arrive one after the other: each is served in the
\* first request slot, the next one after the response of the one before;
\* ConcSpec drops this guard
Alone(r) == r = 1
Quiet    == \A o \in Requests : req[o].pc = "idle"

\* a committed UPDATE of the row by request r: every other request that holds
\* a copy of the row now holds a stale one (stale is bookkeeping of the model,
\* the code keeps no version)
MarkStale(r, fresh) ==
  [o \in Requests |->
     IF o = r THEN fresh
     ELSE IF req[o].pc \in {"idle", "done"} THEN req[o]
     ELSE [req[o] EXCEPT !.stale = TRUE]]

\* ------------------------------------------------------- question sources
\* MockAgent.generate_challenge: 1..n questions q1..qn with their answer key,
\* no session_progress entry
MockPayloads(persona) ==
  { [questions |-> [set |-> c, n |-> n], answer_key |-> [set |-> c, n |-> n],
     has_progress |-> FALSE, session_progress |-> NoProgress,
     metadata |-> [persona |-> persona, agent_type |-> "mock"]]
    : c \in 1..MaxContent, n \in 1..MaxQuestions }

\* LangChainAgent.generate_challenge on success: one question, its key and
\* a fresh session_progress
LangChainPayloads(persona) ==
  { [questions |-> [set |-> c, n |-> 1], answer_key |-> [set |-> c, n |-> 1],
     has_progress |-> TRUE,
     session_progress |-> [questions_answered_correctly |-> 0,
                           total_questions_required     |-> LANGCHAIN_REQUIRED,
                           questions_attempted          |-> 0],
     metadata |-> [persona |-> persona, agent_type |-> "langchain"]]
    : c \in 1..MaxContent }

generate_challenge(agent, persona) ==
  IF agent = "langchain" THEN LangChainPayloads(persona) ELSE MockPayloads(persona)

Subjects     == {"none", "math", "art"}
Difficulties == {"none", "easy", "hard"}

\* repositories/challenges.py create_challenge
create_challenge(payload, attempts_left) ==
  [status |-> "open", attempts_left |-> attempts_left, payload |-> payload]

\* the persona strings a generate request can carry: the values of
\* PersonaType and one string that is none of them
PersonaInputs == Personas \cup {"invalid_persona"}

\* line 98, PersonaType(body.persona): ValueError for a string that is no
\* value of the enum
PersonaType(persona) == IF persona \in Personas THEN persona ELSE "ValueError"

\* lines 139-157: every exception raised in the handler, the ValueError of
\* line 98 included, is answered with HTTP 500
generate_failed_status == 500

\* POST /challenge/generate.  The context is built (line 94), the agent is
\* selected and generates, the challenge is stored and HTTP 200 is returned;
\* an exception on the way stores no challenge.
GenerateChallenge ==
  /\ db.status = "none"
  /\ \E persona \in PersonaInputs, subject \in Subjects, difficulty \in Difficulties :
       IF PersonaType(persona) = "ValueError"
       THEN /\ gen' = [status |-> generate_failed_status, persona |-> persona]
            /\ db' = db
       ELSE LET context == [persona |-> PersonaType(persona), subject |-> subject,
                            difficulty |-> difficulty]
                agent   == select_agent(context, env.openai_key)
            IN /\ agent # "error"
               /\ \E payload \in generate_challenge(agent, persona) :
                    db' = create_challenge(payload, env.challenge_attempts)
               /\ gen' = [status |-> 200, persona |-> persona]
  /\ UNCHANGED << delivered_at, pulls, call, env, req, sessions, commands >>


\* --------------------------------------------------- POST /challenge/answer
\* a status check that only knows the failed status
challenge_closed_failed_only(status) == status = "failed"

\* `if ch.status != "open"` (line 166)
challenge_closed(status) == status # "open"

\* session_progress of lines 193-202: the stored entry, or the default one
\* when the payload has none, with this submission counted
update_progress(payload, correct) ==
  LET old == IF payload.has_progress THEN payload.session_progress
             ELSE [questions_answered_correctly |-> 0,
                   total_questions_required     |-> DEFAULT_TOTAL_REQUIRED,
                   questions_attempted          |-> 0]
  IN [old EXCEPT !.questions_attempted = @ + 1,
                 !.questions_answered_correctly = IF correct THEN @ + 1 ELSE @]

\* the comparison of line 224 made strict
allow_condition_strict(progress) ==
  progress.questions_answered_correctly > progress.total_questions_required

\* line 224
allow_condition(progress) ==
  progress.questions_answered_correctly >= progress.total_questions_required

\* the last-attempt test of line 238 off by one
last_attempt_off_by_one(attempts_left) == attempts_left <= 2

\* line 238, "Last attempt used"
last_attempt(attempts_left) == attempts_left <= 1

\* a test of the verdict that never takes the incorrect-answer branch
incorrect_branch_never(correct) == FALSE

\* line 249, `if not validation_result["correct"]`
incorrect_branch(correct) == ~correct

\* a decrement that takes two attempts at once
decrement_attempts_by_two(attempts_left) ==
  IF attempts_left - 2 > 0 THEN attempts_left - 2 ELSE 0

\* repositories/challenges.py decrement_attempts, the value it assigns
decrement_attempts(attempts_left) ==
  IF attempts_left - 1 > 0 THEN attempts_left - 1 ELSE 0

\* line 254, the attempts_left of the DENY response, from the refreshed ch
reported_attempts(ch) == ch.attempts_left - 1

\* Lines 163-205: load the row, reject an unknown or closed challenge,
\* re-select the agent from the stored persona, evaluate the answers against
\* the loaded payload and count the submission in session_progress.
\* (The agent is wanted again in GenerateNext; it is a function of env and
\* of the stored persona, so it is recomputed there.)
Load(r, answers, serial) ==
  /\ req[r].pc = "idle"
  /\ serial => Alone(r)
  /\ LET ch == db
         context == [persona |-> ch.payload.metadata.persona,
                     subject |-> "none", difficulty |-> "none"]
         agent   == select_agent(context, env.openai_key)
         correct == validate_answers(ch.payload, answers)
     IN req' = [req EXCEPT ![r] =
          IF ch.status = "none"
          THEN [IdleReq EXCEPT !.pc = "done", !.n_answers = Len(answers),
                               !.resp = [NoResp EXCEPT !.kind = "challenge_not_found"]]
          ELSE IF challenge_closed(ch.status)
          THEN [IdleReq EXCEPT !.pc = "done", !.ch = ch, !.n_answers = Len(answers),
                               !.loaded = ch,
                               !.resp = [NoResp EXCEPT !.kind = "challenge_closed"]]
          ELSE IF agent = "error"
          THEN [IdleReq EXCEPT !.pc = "done", !.ch = ch, !.n_answers = Len(answers),
                               !.loaded = ch,
                               !.resp = [NoResp EXCEPT !.kind = "error"]]
          ELSE [IdleReq EXCEPT !.pc = "commit_progress", !.ch = ch,
                               !.loaded = ch, !.agent = agent,
                               !.aliased = ch.payload.has_progress,
                               !.correct = correct,
                               !.session_progress = update_progress(ch.payload, correct),
                               !.n_answers = Len(answers)]]
  /\ UNCHANGED << delivered_at, pulls, gen, call, env, db, sessions, commands >>

\* Lines 212-224: assign the payload with the counted progress and commit,
\* then take the ALLOW branch or go on to the attempts check.
\* SQLAlchemy emits the UPDATE only if the assigned value differs (==) from
\* the value it loaded.  When the loaded payload already had a
\* session_progress entry, lines 200-202 changed that entry in place, inside
\* the loaded value as well (payload.copy() is shallow), so the two compare
\* equal and nothing is written; only a payload without the entry is written.
\* The commit expires ch.
CommitProgress(r) ==
  /\ req[r].pc = "commit_progress"
  /\ LET me == req[r]
         updated_progress_payload ==
           [me.ch.payload EXCEPT !.has_progress = TRUE,
                                 !.session_progress = me.session_progress]
         next == IF allow_condition(me.session_progress)
                 THEN "set_passed" ELSE "check_attempts"
     IN IF me.aliased
        THEN /\ db' = db
             /\ req' = [req EXCEPT ![r].pc = next]
        ELSE /\ db' = [db EXCEPT !.payload = updated_progress_payload]
             /\ req' = MarkStale(r, [me EXCEPT !.pc = next])
  /\ UNCHANGED << delivered_at, pulls, gen, call, env, sessions, commands >>

\* Line 226, set_status(db, ch, "passed"): UPDATE of the status column, then
\* refresh of ch
SetPassed(r) ==
  /\ req[r].pc = "set_passed"
  /\ db' = [db EXCEPT !.status = "passed"]
  /\ req' = MarkStale(r, [req[r] EXCEPT !.pc = "create_session", !.ch = db', !.stale = FALSE])
  /\ UNCHANGED << delivered_at, pulls, gen, call, env, sessions, commands >>

\* Line 227, create_session
CreateSession(r) ==
  /\ req[r].pc = "create_session"
  /\ sessions' = sessions + 1
  /\ req' = [req EXCEPT ![r].pc = "enqueue_grant"]
  /\ UNCHANGED << delivered_at, pulls, gen, call, env, db, commands >>

\* Lines 228-235, enqueue_grant_session and the ALLOW response
EnqueueGrant(r) ==
  /\ req[r].pc = "enqueue_grant"
  /\ commands' = commands + 1
  /\ req' = [req EXCEPT ![r].pc = "done",
                        ![r].resp = [NoResp EXCEPT !.kind = "ALLOW"]]
  /\ UNCHANGED << delivered_at, pulls, gen, call, env, db, sessions >>

\* Lines 238, 249: ch is expired, reading ch.attempts_left reloads the row
CheckAttempts(r) ==
  /\ req[r].pc = "check_attempts"
  /\ req' = [req EXCEPT ![r].ch = db, ![r].stale = FALSE,
                        ![r].pc = IF last_attempt(db.attempts_left) THEN "decrement_last"
                                  ELSE IF incorrect_branch(req[r].correct) THEN "decrement_wrong"
                                  ELSE "generate_next"]
  /\ UNCHANGED << delivered_at, pulls, gen, call, env, db, sessions, commands >>

\* a request's step that ends in a commit: when the commit changed the row,
\* the copies held by the other requests are stale
Committed(r, fresh) ==
  IF db' # db THEN MarkStale(r, fresh) ELSE [req EXCEPT ![r] = fresh]

\* the UPDATE of decrement_attempts, computed from the request's copy of the
\* row; nothing is written when the assigned value equals the loaded one
WriteAttempts(r) ==
  LET value == decrement_attempts(req[r].ch.attempts_left)
  IN [db EXCEPT !.attempts_left = IF value # req[r].ch.attempts_left THEN value ELSE @]

\* Line 239, decrement_attempts and its refresh
DecrementLast(r) ==
  /\ req[r].pc = "decrement_last"
  /\ db' = WriteAttempts(r)
  /\ req' = Committed(r, [req[r] EXCEPT !.pc = "set_failed", !.ch = db', !.stale = FALSE])
  /\ UNCHANGED << delivered_at, pulls, gen, call, env, sessions, commands >>

\* Lines 240-246, set_status(db, ch, "failed") and the DENY response
SetFailed(r) ==
  /\ req[r].pc = "set_failed"
  /\ db' = [db EXCEPT !.status = IF req[r].ch.status # "failed" THEN "failed" ELSE @]
  /\ req' = Committed(r, [req[r] EXCEPT !.pc = "done", !.ch = db', !.stale = FALSE,
                                        !.resp = [NoResp EXCEPT !.kind = "DENY",
                                                                !.attempts_left = 0,
                                                                !.reason = "max_attempts_reached"]])
  /\ UNCHANGED << delivered_at, pulls, gen, call, env, sessions, commands >>

\* Lines 249-257, the wrong answer that is not the last attempt: decrement,
\* refresh, DENY with the attempts computed from the refreshed ch
DecrementWrong(r) ==
  /\ req[r].pc = "decrement_wrong"
  /\ db' = WriteAttempts(r)
  /\ req' = Committed(r, [req[r] EXCEPT !.pc = "done", !.ch = db', !.stale = FALSE,
                                        !.resp = [NoResp EXCEPT !.kind = "DENY",
                                                                !.attempts_left = reported_attempts(db'),
                                                                !.reason = "incorrect_answer"]])
  /\ UNCHANGED << delivered_at, pulls, gen, call, env, sessions, commands >>

\* Lines 260-288: the agent generates the next question; questions and
\* answer_key of the request's copy of the payload are replaced and the
\* payload is committed; CONTINUE carries the new questions and the progress
\* counted by this request.
GenerateNext(r) ==
  /\ req[r].pc = "generate_next"
  /\ LET me      == req[r]
         persona == me.ch.payload.metadata.persona
         context == [persona |-> persona, subject |-> "none", difficulty |-> "none"]
         agent   == select_agent(context, env.openai_key)
     IN \E next_challenge \in generate_challenge(agent, persona) :
          LET updated_payload ==
                [me.ch.payload EXCEPT !.questions  = next_challenge.questions,
                                      !.answer_key = next_challenge.answer_key]
          IN /\ db' = [db EXCEPT !.payload = IF updated_payload # me.ch.payload
                                             THEN updated_payload ELSE @]
             /\ req' = Committed(r, [me EXCEPT !.pc = "done",
                                      !.resp = [NoResp EXCEPT !.kind = "CONTINUE",
                                                  !.questions = next_challenge.questions,
                                                  !.progress = me.session_progress]])
  /\ UNCHANGED << delivered_at, pulls, gen, call, env, sessions, commands >>

\* a generation failure answered as a denial
generation_failure_swallowed == [NoResp EXCEPT !.kind = "DENY"]

\* the exception of line 260 leaves challenge_answer: HTTP 500
generation_failure == [NoResp EXCEPT !.kind = "error"]

\* Line 260 raising: LangChainAgent.generate_challenge re-raises every error
\* of the completion service; the request ends with HTTP 500
GenerateNextFails(r) ==
  /\ req[r].pc = "generate_next"
  /\ LET context == [persona |-> req[r].ch.payload.metadata.persona,
                     subject |-> "none", difficulty |-> "none"]
     IN select_agent(context, env.openai_key) = "langchain"
  /\ req' = [req EXCEPT ![r].pc = "done",
                        ![r].resp = generation_failure]
  /\ UNCHANGED << delivered_at, pulls, gen, call, env, db, sessions, commands >>

\* the response is sent and the request's database session is closed
Respond(r) ==
  /\ req[r].pc = "done"
  /\ req' = [req EXCEPT ![r] = IdleReq]
  /\ UNCHANGED << delivered_at, pulls, gen, call, env, db, sessions, commands >>

\* the expiry of an open challenge, set_status(db, ch, "expired"), done
\* outside challenge_answer, between two submissions
Expire ==
  /\ db.status = "open"
  /\ Quiet
  /\ db' = [db EXCEPT !.status = "expired"]
  /\ UNCHANGED << delivered_at, pulls, gen, call, env, req, sessions, commands >>

Handler(r) ==
  \/ CommitProgress(r)
  \/ SetPassed(r)
  \/ CreateSession(r)
  \/ EnqueueGrant(r)
  \/ CheckAttempts(r)
  \/ DecrementLast(r)
  \/ SetFailed(r)
  \/ DecrementWrong(r)
  \/ GenerateNext(r)
  \/ GenerateNextFails(r)

\* submissions arrive one after the other
Next ==
  \/ GenerateChallenge
  \/ Expire
  \/ \E r \in Requests : \E answers \in AnswerLists : Load(r, answers, TRUE)
  \/ \E r \in Requests : Handler(r)
  \/ \E r \in Requests : Respond(r)

Spec == Init /\ [][Next]_vars

\* create_session (line 227) raising, e.g. on a failed commit: status
\* passed is committed already (set_status commits on its own), the
\* exception leaves challenge_answer as HTTP 500
CreateSessionFails(r) ==
  /\ req[r].pc = "create_session"
  /\ req' = [req EXCEPT ![r].pc = "done",
                        ![r].resp = [NoResp EXCEPT !.kind = "error"]]
  /\ UNCHANGED << delivered_at, pulls, gen, call, env, db, sessions, commands >>

\* enqueue_grant_session (line 228) raising: status passed and the session
\* row are committed already
EnqueueGrantFails(r) ==
  /\ req[r].pc = "enqueue_grant"
  /\ req' = [req EXCEPT ![r].pc = "done",
                        ![r].resp = [NoResp EXCEPT !.kind = "error"]]
  /\ UNCHANGED << delivered_at, pulls, gen, call, env, db, sessions, commands >>

\* sequential submissions, any of the three commits of the ALLOW branch
\* after the first may fail
FaultNext ==
  \/ Next
  \/ \E r \in Requests : CreateSessionFails(r)
  \/ \E r \in Requests : EnqueueGrantFails(r)

FaultSpec == Init /\ [][FaultNext]_vars

\* NumRequests submissions, one per request slot, that may overlap
ConcNext ==
  \/ GenerateChallenge
  \/ \E r \in Requests : \E answers \in AnswerLists : Load(r, answers, FALSE)
  \/ \E r \in Requests : Handler(r)

ConcSpec == Init /\ [][ConcNext]_vars

TypeOK ==
  /\ db.status \in {"none", "open"} \cup Terminal
  /\ db.attempts_left \in 0..MaxAttempts
  /\ sessions \in Nat /\ commands \in Nat


\* ============================================================ strings
\* Python strings are sequences of characters over a small alphabet that has
\* a lower-case letter, its upper-case form, a second letter and the blank.
Chars == {"a", "A", "b", " "}

RECURSIVE StringsUpTo(_)
StringsUpTo(n) ==
  IF n = 0 THEN { << >> }
  ELSE LET shorter == StringsUpTo(n - 1)
       IN shorter \cup { Append(t, c) : t \in { u \in shorter : Len(u) = n - 1 }, c \in Chars }

Strings == StringsUpTo(MaxStr)

\* the value None, and a value that is no string (an option the completion
\* service wrote as a JSON number)
None       == << "None" >>
NotAString == << "int" >>

\* str.lower()
RECURSIVE lower(_)
lower(str) ==
  IF str = << >> THEN << >>
  ELSE << IF Head(str) = "A" THEN "a" ELSE Head(str) >> \o lower(Tail(str))

\* str.strip()
RECURSIVE lstrip(_)
lstrip(str) ==
  IF str # << >> /\ Head(str) = " " THEN lstrip(Tail(str)) ELSE str

RECURSIVE rstrip(_)
rstrip(str) ==
  IF str # << >> /\ str[Len(str)] = " " THEN rstrip(SubSeq(str, 1, Len(str) - 1)) ELSE str

strip(str) == rstrip(lstrip(str))

\* " ".join(str.split()): no leading or trailing blank, one blank between words
RECURSIVE squeeze(_)
squeeze(str) ==
  IF Len(str) < 2 THEN str
  ELSE IF str[1] = " " /\ str[2] = " " THEN squeeze(Tail(str))
  ELSE << Head(str) >> \o squeeze(Tail(str))

join_split(str) == squeeze(strip(str))

\* set(str.split()): the words of str; word is the word being read
RECURSIVE words(_, _)
words(str, word) ==
  IF str = << >> THEN (IF word = << >> THEN {} ELSE {word})
  ELSE IF Head(str) = " "
       THEN (IF word = << >> THEN {} ELSE {word}) \cup words(Tail(str), << >>)
       ELSE words(Tail(str), Append(word, Head(str)))

\* set(str): the characters of str
chars(str) == { str[i] : i \in 1..Len(str) }

\* `x in y` of two strings
IsSubstring(x, y) ==
  \E k \in 0..(Len(y) - Len(x)) : SubSeq(y, k + 1, k + Len(x)) = x

\* ------------------------------------------------- scores as exact fractions
\* A float score is kept as the fraction num/den, den > 0 (the rounding of
\* the floating-point operations is not modelled).
Frac(n, d) == [num |-> n, den |-> d]

FracAdd(x, y) == Frac(x.num * y.den + y.num * x.den, x.den * y.den)
FracMul(x, y) == Frac(x.num * y.num, x.den * y.den)
FracGeq(x, y) == x.num * y.den >= y.num * x.den
FracMin(x, y) == IF FracGeq(x, y) THEN y ELSE x
FracMax(x, y) == IF FracGeq(x, y) THEN x ELSE y
FracIsZero(x) == x.num = 0

Max3(a, b, c) == LET m == IF a >= b THEN a ELSE b IN IF m >= c THEN m ELSE c
Abs(a) == IF a >= 0 THEN a ELSE 0 - a

\* ------------------------------------ rule-based engine (validation.py)
\* a persona table whose partial-credit caps reach the thresholds
persona_configs_caps_at_threshold(persona) ==
  CASE persona = "tutor" ->
         [strategy |-> "partial_credit", score_threshold |-> Frac(8, 10),
          allow_partial_credit |-> TRUE, max_partial_credit |-> Frac(8, 10),
          case_sensitive |-> FALSE, ignore_whitespace |-> TRUE]
    [] persona = "maternal" ->
         [strategy |-> "fuzzy_match", score_threshold |-> Frac(7, 10),
          allow_partial_credit |-> TRUE, max_partial_credit |-> Frac(8, 10),
          case_sensitive |-> FALSE, ignore_whitespace |-> TRUE]
    [] OTHER ->
         [strategy |-> "balanced", score_threshold |-> Frac(75, 100),
          allow_partial_credit |-> TRUE, max_partial_credit |-> Frac(75, 100),
          case_sensitive |-> FALSE, ignore_whitespace |-> TRUE]

\* AnswerValidator._initialize_persona_configs
persona_configs(persona) ==
  CASE persona = "tutor" ->
         [strategy |-> "partial_credit", score_threshold |-> Frac(8, 10),
          allow_partial_credit |-> TRUE, max_partial_credit |-> Frac(7, 10),
          case_sensitive |-> FALSE, ignore_whitespace |-> TRUE]
    [] persona = "maternal" ->
         [strategy |-> "fuzzy_match", score_threshold |-> Frac(7, 10),
          allow_partial_credit |-> TRUE, max_partial_credit |-> Frac(8, 10),
          case_sensitive |-> FALSE, ignore_whitespace |-> TRUE]
    [] OTHER ->
         [strategy |-> "balanced", score_threshold |-> Frac(75, 100),
          allow_partial_credit |-> TRUE, max_partial_credit |-> Frac(6, 10),
          case_sensitive |-> FALSE, ignore_whitespace |-> TRUE]

\* AnswerValidator._normalize_answer
_normalize_answer(answer, config) ==
  IF answer = None THEN << >>
  ELSE LET stripped == strip(answer)
           cased    == IF ~config.case_sensitive THEN lower(stripped) ELSE stripped
       IN IF config.ignore_whitespace THEN join_split(cased) ELSE cased

\* AnswerValidator._fuzzy_match_score
_fuzzy_match_score(student_answer, correct_answer) ==
  IF student_answer = << >> \/ correct_answer = << >> THEN Frac(0, 1)
  ELSE LET student_chars == chars(lower(student_answer))
           correct_chars == chars(lower(correct_answer))
           intersection  == Cardinality(student_chars \cap correct_chars)
           union         == Cardinality(student_chars \cup correct_chars)
           longest       == Max3(Len(student_answer), Len(correct_answer), 1)
           jaccard_similarity == Frac(intersection, union)
           length_similarity  ==
             Frac(longest - Abs(Len(student_answer) - Len(correct_answer)), longest)
       IN FracAdd(FracMul(Frac(7, 10), jaccard_similarity),
                  FracMul(Frac(3, 10), length_similarity))

\* AnswerValidator._semantic_match_score
_semantic_match_score(student_answer, correct_answer) ==
  LET student_words == words(lower(student_answer), << >>)
      correct_words == words(lower(correct_answer), << >>)
  IN IF correct_words = {} THEN Frac(0, 1)
     ELSE Frac(Cardinality(student_words \cap correct_words), Cardinality(correct_words))

\* AnswerValidator._partial_credit_score
_partial_credit_score(student_answer, correct_answer, config) ==
  IF student_answer = correct_answer THEN Frac(1, 1)
  ELSE IF ~config.allow_partial_credit THEN Frac(0, 1)
  ELSE LET fuzzy_score    == _fuzzy_match_score(student_answer, correct_answer)
           semantic_score == _semantic_match_score(student_answer, correct_answer)
           weighted_score == FracAdd(FracMul(fuzzy_score, Frac(3, 10)),
                                     FracMul(semantic_score, Frac(2, 10)))
       IN FracMin(weighted_score, config.max_partial_credit)

\* AnswerValidator._calculate_score
_calculate_score(student_answer, correct_answer, config) ==
  CASE config.strategy = "exact_match" ->
         IF student_answer = correct_answer THEN Frac(1, 1) ELSE Frac(0, 1)
    [] config.strategy = "fuzzy_match" ->
         _fuzzy_match_score(student_answer, correct_answer)
    [] config.strategy = "semantic_match" ->
         _semantic_match_score(student_answer, correct_answer)
    [] config.strategy = "partial_credit" ->
         _partial_credit_score(student_answer, correct_answer, config)
    [] OTHER ->
         IF student_answer = correct_answer THEN Frac(1, 1)
         ELSE FracMax(Frac(0, 1),
                      FracMul(_fuzzy_match_score(student_answer, correct_answer),
                              config.max_partial_credit))

\* AnswerValidator.validate_answer: score and verdict of one answer
validate_answer(student_answer, correct_answer, persona) ==
  LET config == persona_configs(persona)
      score  == _calculate_score(_normalize_answer(student_answer, config),
                                 _normalize_answer(correct_answer, config), config)
  IN [correct |-> FracGeq(score, config.score_threshold), score |-> score]


\* ----------------------------------- literal matching (ai_validator.py)
\* the letter of option i: chr(65 + i).lower(); the alphabet has two letters
option_letter(i) == IF i = 1 THEN << "a" >> ELSE IF i = 2 THEN << "b" >> ELSE << "c" >>

\* AIAnswerValidator._fallback_validation: the options are scanned in order;
\* the first one that the answer names by letter, by text, or that contains
\* or is contained in the answer, decides, and it counts as correct only if
\* it is the first option.  option.lower() raises on an option that is no
\* string.  i is the position of the option being scanned.
RECURSIVE literal_scan(_, _, _)
literal_scan(options, i, student_answer_clean) ==
  IF i > Len(options)
  THEN [raised |-> FALSE, correct |-> FALSE, score |-> Frac(0, 1)]
  ELSE IF options[i] = NotAString
  THEN [raised |-> TRUE, correct |-> FALSE, score |-> Frac(0, 1)]
  ELSE LET option_text == strip(lower(options[i]))
       IN IF \/ student_answer_clean = option_letter(i)
             \/ student_answer_clean = option_text
             \/ IsSubstring(option_text, student_answer_clean)
             \/ IsSubstring(student_answer_clean, option_text)
          THEN [raised |-> FALSE, correct |-> i = 1,
                score |-> IF i = 1 THEN Frac(1, 1) ELSE Frac(0, 1)]
          ELSE literal_scan(options, i + 1, student_answer_clean)

_fallback_validation(options, student_answer) ==
  literal_scan(options, 1, lower(strip(student_answer)))

\* AIAnswerValidator.validate_answer: the verdict of the completion service,
\* or, when the call or the parsing of its reply raises, the verdict of
\* _fallback_validation (lines 89-93), whose own exception leaves the method.
\* ai = [outcome, correct, score] is what the completion service does.
ai_validate_answer(ai, options, student_answer) ==
  IF ai.outcome = "ok"
  THEN [raised |-> FALSE, tier |-> "ai", correct |-> ai.correct, score |-> ai.score]
  ELSE LET fallback == _fallback_validation(options, student_answer)
       IN [raised |-> fallback.raised, tier |-> "literal",
           correct |-> fallback.correct, score |-> fallback.score]

\* the rule-based tier only
judge_answer_rule_only(ai, options, student_answer, correct_answer, persona) ==
  LET basic == validate_answer(student_answer, correct_answer, persona)
  IN [tier |-> "rule", correct |-> basic.correct, score |-> basic.score]

\* LangChainAgent.validate_answers, lines 336-370: the verdict for one answer.
\* ai.available is `ai_validator_available and ai_validator`.
judge_answer(ai, options, student_answer, correct_answer, persona) ==
  LET basic == validate_answer(student_answer, correct_answer, persona)
      rule  == [tier |-> "rule", correct |-> basic.correct, score |-> basic.score]
      tried == ai_validate_answer(ai, options, student_answer)
  IN IF ai.available
     THEN IF ~tried.raised
          THEN [tier |-> tried.tier, correct |-> tried.correct, score |-> tried.score]
          ELSE rule
     ELSE rule

\* what the AI judge can do with one answer
AiCases ==
  { [available |-> FALSE, outcome |-> "none",   correct |-> FALSE, score |-> Frac(0, 1)],
    [available |-> TRUE,  outcome |-> "ok",     correct |-> FALSE, score |-> Frac(0, 1)],
    [available |-> TRUE,  outcome |-> "ok",     correct |-> TRUE,  score |-> Frac(1, 1)],
    [available |-> TRUE,  outcome |-> "raises", correct |-> FALSE, score |-> Frac(0, 1)] }

\* the options of a question: up to MaxOptions texts, or values that are no strings
OptionValues == { << "a" >>, << "b" >>, NotAString }

RECURSIVE OptionLists(_)
OptionLists(n) ==
  IF n = 0 THEN { << >> }
  ELSE LET shorter == OptionLists(n - 1)
       IN shorter \cup { Append(t, o) : t \in { u \in shorter : Len(u) = n - 1 },
                                         o \in OptionValues }

\* the answer_key entry of the question: payload["answer_key"].get(id, "")
KeyEntries == { << >>, << "a" >>, << "b" >> }

Pending == [tier |-> "pending"]

\* the states of the function-level specifications keep the challenge state
\* machine at rest
AtRest ==
  /\ env = [openai_key |-> FALSE, challenge_attempts |-> 1]
  /\ db = NoRow
  /\ req = [r \in Requests |-> IdleReq]
  /\ sessions = 0
  /\ commands = 0
  /\ gen = NoGen
  /\ delivered_at = {}
  /\ pulls = [p \in Pulls |-> IdlePull]

\* JudgeSpec: one answer of a submission evaluated by LangChainAgent
JudgeInit ==
  /\ AtRest
  /\ call \in [fn : {"judge_answer"}, ai : AiCases, options : OptionLists(MaxOptions),
               student_answer : Strings, correct_answer : KeyEntries,
               persona : Personas, result : {Pending}]

JudgeAnswer ==
  /\ call.fn = "judge_answer"
  /\ call.result = Pending
  /\ call' = [call EXCEPT !.result = judge_answer(call.ai, call.options, call.student_answer,
                                                  call.correct_answer, call.persona)]
  /\ UNCHANGED << delivered_at, pulls, env, db, req, sessions, commands, gen >>

JudgeNext == JudgeAnswer

JudgeSpec == JudgeInit /\ [][JudgeNext]_vars


\* ------------------------------ validate_answers of the two agents
\* payload["answer_key"] as stored: LangChainAgent.generate_challenge keeps
\* response.get("answer_key", {}) as the completion service sent it (line
\* 247), which may be a JSON value that is no object
NotADict == << "list" >>

\* answer_validator.validate_answer called with
\* correct_answer = payload["answer_key"].get(answer["id"], ""): the .get
\* raises on a key that is no dict, _normalize_answer raises on an entry that
\* is no string (answer.strip())
basic_validation(answer_key, student_answer, persona) ==
  IF answer_key = NotADict \/ answer_key = NotAString
  THEN [raised |-> TRUE, tier |-> "rule", correct |-> FALSE]
  ELSE LET basic == validate_answer(student_answer, answer_key, persona)
       IN [raised |-> FALSE, tier |-> "rule",
           correct |-> FracGeq(basic.score, Frac(threshold_map(persona), 100))]

\* LangChainAgent._fallback_validation (lines 408-428): key.get(answer["id"])
\* compared with the stripped answer; one question, threshold 0.8
aggregate_fallback_validation(answer_key, student_answer) ==
  IF answer_key = NotADict
  THEN [raised |-> TRUE, tier |-> "aggregate", correct |-> FALSE]
  ELSE [raised |-> FALSE, tier |-> "aggregate",
        correct |-> answer_key # NotAString /\ answer_key = strip(student_answer)]

\* the verdict when no answer names a question of the payload: score 0
no_answer_counted == [raised |-> FALSE, tier |-> "none", correct |-> FALSE]

\* MockAgent.validate_answers (agent.py:101-155) on a payload of one question
\* and a submission of one answer: no handler, an exception of the rule-based
\* engine leaves the method.  named: the answer carries the id of the question.
mock_validate_answers(answer_key, named, student_answer, persona) ==
  IF ~named THEN no_answer_counted
  ELSE basic_validation(answer_key, student_answer, persona)

\* LangChainAgent.validate_answers (langchain_agent.py:304-406) on the same:
\* the AI judge, on its failure the rule-based engine, and on any exception
\* of lines 306-401 the result of _fallback_validation (line 406), whose own
\* exception leaves the method
langchain_validate_answers(ai, options, answer_key, named, student_answer, persona) ==
  IF ~named THEN no_answer_counted
  ELSE LET tried == ai_validate_answer(ai, options, student_answer)
           main  == IF ai.available /\ ~tried.raised
                    THEN [raised |-> FALSE, tier |-> tried.tier,
                          correct |-> FracGeq(tried.score, Frac(threshold_map(persona), 100))]
                    ELSE basic_validation(answer_key, student_answer, persona)
       IN IF ~main.raised THEN main
          ELSE aggregate_fallback_validation(answer_key, student_answer)

\* line 190 of challenge_answer: agent.validate_answers(current_payload, answers)
agent_validate_answers(agent, ai, options, answer_key, named, student_answer, persona) ==
  IF agent = "langchain"
  THEN langchain_validate_answers(ai, options, answer_key, named, student_answer, persona)
  ELSE mock_validate_answers(answer_key, named, student_answer, persona)

\* EvalSpec: validate_answers of the agent selected at answer time, applied
\* to a stored payload of one question and a submission of one answer.  The
\* availability of the completion service is the same at generation and at
\* answer time: MockAgent evaluates only payloads it generated (options and
\* key entries that are strings), LangChainAgent evaluates payloads of both.
EvalInit ==
  /\ AtRest
  /\ call \in { c \in [fn : {"agent_validate_answers"}, agent : {"mock", "langchain"},
                       ai : AiCases, options : OptionLists(1),
                       answer_key : KeyEntries \cup {NotAString, NotADict},
                       named : BOOLEAN, student_answer : StringsUpTo(1),
                       persona : Personas, result : {Pending}] :
                c.agent = "mock" =>
                  /\ c.answer_key \in KeyEntries \ { << >> }
                  /\ c.options \in { << << "a" >> >>, << << "b" >> >> }
                  /\ ~c.ai.available }

AgentValidateAnswers ==
  /\ call.fn = "agent_validate_answers"
  /\ call.result = Pending
  /\ call' = [call EXCEPT !.result =
                agent_validate_answers(call.agent, call.ai, call.options, call.answer_key,
                                       call.named, call.student_answer, call.persona)]
  /\ UNCHANGED << delivered_at, pulls, env, db, req, sessions, commands, gen >>

EvalNext == AgentValidateAnswers

EvalSpec == EvalInit /\ [][EvalNext]_vars


\* ------------------------------ generate_challenge of the two agents
\* Question ids are numbers: k stands for the id "q<k>", 0 for a question
\* of the reply that carries no "id".  A generated payload is
\* [questions |-> the ids of its questions in order, answer_key |-> the set
\* of ids its answer key has an entry for].

\* what the completion service can reply (after JsonOutputParser): up to
\* MaxReply questions and an answer key over any of the ids
Replies ==
  { [questions |-> q, answer_key |-> k] :
      q \in UNION { [1..n -> 0..MaxReply] : n \in 0..MaxReply },
      k \in SUBSET (1..MaxReply) }

\* lines 246-256: questions and answer_key of the reply; when the reply has
\* more than one question, the first one is kept and the answer key is cut
\* down to the entry of its id
enforce_single_question(response) ==
  IF Len(response.questions) > 1
  THEN LET first_question_id == IF response.questions[1] # 0
                                THEN response.questions[1] ELSE 1
       IN [questions |-> << response.questions[1] >>, answer_key |-> {first_question_id}]
  ELSE response

\* lines 259-270: "id": q.get("id", f"q{i+1}")
structured_questions(questions) ==
  [i \in 1..Len(questions) |-> IF questions[i] # 0 THEN questions[i] ELSE i]

\* LangChainAgent.generate_challenge on a reply of the completion service
langchain_generate_challenge(response) ==
  LET kept == enforce_single_question(response)
  IN [questions |-> structured_questions(kept.questions), answer_key |-> kept.answer_key]

\* MockAgent.generate_challenge: questions q1..qn and an entry for each
mock_generate_challenge(n) ==
  [questions |-> [i \in 1..n |-> i], answer_key |-> 1..n]

\* GenerateSpec: generate_challenge of either agent, for every number of
\* questions MockAgent draws and every reply of the completion service
GenerateInit ==
  /\ AtRest
  /\ call \in [fn : {"generate_challenge"}, agent : {"langchain"}, n : {0},
               response : Replies, persona : Personas, result : {Pending}]
          \cup [fn : {"generate_challenge"}, agent : {"mock"}, n : 1..MaxQuestions,
                response : {[questions |-> << >>, answer_key |-> {}]},
                persona : Personas, result : {Pending}]

AgentGenerateChallenge ==
  /\ call.fn = "generate_challenge"
  /\ call.result = Pending
  /\ call' = [call EXCEPT !.result =
                IF call.agent = "langchain" THEN langchain_generate_challenge(call.response)
                ELSE mock_generate_challenge(call.n)]
  /\ UNCHANGED << delivered_at, pulls, env, db, req, sessions, commands, gen >>

GenerateSpecNext == AgentGenerateChallenge

GenerateSpec == GenerateInit /\ [][GenerateSpecNext]_vars


\* ------------------------------------- GET /pull-commands (commands.py)
\* PullSpec: the router, authenticated, pulls its commands while grants are
\* enqueued; the pull requests may overlap.  Every command is a
\* grant_session of this router.
PullInit ==
  /\ env = [openai_key |-> FALSE, challenge_attempts |-> 1]
  /\ db = NoRow
  /\ req = [r \in Requests |-> IdleReq]
  /\ sessions = 0
  /\ commands = 0
  /\ gen = NoGen
  /\ call = NoCall
  /\ delivered_at = {}
  /\ pulls = [p \in Pulls |-> IdlePull]

\* enqueue_grant_session: a new row, delivered_at NULL
EnqueueGrantSession ==
  /\ commands < MaxCommands
  /\ commands' = commands + 1
  /\ UNCHANGED << delivered_at, pulls, env, db, req, sessions, gen, call >>

\* list_pending_for_router (line 23): the rows whose delivered_at is NULL
list_pending_for_router == (1..commands) \ delivered_at

\* lines 18-24: the pending commands are read and the response is built
ListPending(p) ==
  /\ pulls[p].pc = "idle"
  /\ pulls' = [pulls EXCEPT ![p] = [pc |-> "listed", cmds |-> list_pending_for_router,
                                    out |-> {}]]
  /\ UNCHANGED << delivered_at, env, db, req, sessions, commands, gen, call >>

\* mark_delivered (line 25): UPDATE ... WHERE id IN (ids), then commit
MarkDelivered(p) ==
  /\ pulls[p].pc = "listed"
  /\ delivered_at' = delivered_at \cup pulls[p].cmds
  /\ pulls' = [pulls EXCEPT ![p].pc = "marked"]
  /\ UNCHANGED << env, db, req, sessions, commands, gen, call >>

\* line 26: the response carries the commands read at line 23
ReturnCommands(p) ==
  /\ pulls[p].pc = "marked"
  /\ pulls' = [pulls EXCEPT ![p].pc = "done", ![p].out = pulls[p].cmds]
  /\ UNCHANGED << delivered_at, env, db, req, sessions, commands, gen, call >>

PullNext ==
  \/ EnqueueGrantSession
  \/ \E p \in Pulls : ListPending(p)
  \/ \E p \in Pulls : MarkDelivered(p)
  \/ \E p \in Pulls : ReturnCommands(p)

PullSpec == PullInit /\ [][PullNext]_vars


\* RouterSpec: select_agent applied to every context, with and without the
\* OpenAI key, under every value ROUTER_PREFER_LLM can name
RouterInit ==
  /\ AtRest
  /\ call \in [fn : {"select_agent"},
               context : [persona : Personas, subject : SubjectType \cup {"none"},
                          difficulty : DifficultyLevel \cup {"none"}],
               key : BOOLEAN, prefer : LLMProvider,
               selected : {-1}, agent : {"pending"}]

SelectAgent ==
  /\ call.fn = "select_agent"
  /\ call.agent = "pending"
  /\ call' = [call EXCEPT !.selected = select_config(call.context, call.key, call.prefer),
                          !.agent = select_agent_for(call.context, call.key, call.prefer)]
  /\ UNCHANGED << delivered_at, pulls, env, db, req, sessions, commands, gen >>

RouterNext == SelectAgent

RouterSpec == RouterInit /\ [][RouterNext]_vars

\* SettingsSpec: select_agent applied to every context under every value of
\* ROUTER_ENABLED and ROUTER_FALLBACK_TO_MOCK
SettingsInit ==
  /\ AtRest
  /\ call \in [fn : {"select_agent_under"},
               context : [persona : Personas, subject : SubjectType \cup {"none"},
                          difficulty : DifficultyLevel \cup {"none"}],
               key : BOOLEAN, prefer : LLMProvider,
               enabled : BOOLEAN, fallback : BOOLEAN,
               agent : {"pending"}]

SelectAgentUnder ==
  /\ call.fn = "select_agent_under"
  /\ call.agent = "pending"
  /\ call' = [call EXCEPT !.agent = select_agent_under(call.context, call.key, call.prefer,
                                                       call.enabled, call.fallback)]
  /\ UNCHANGED << delivered_at, pulls, env, db, req, sessions, commands, gen >>

SettingsNext == SelectAgentUnder

SettingsSpec == SettingsInit /\ [][SettingsNext]_vars


\* final_score of validate_answers (agent.py:133, langchain_agent.py:377):
\* total_score / total_questions, the per-answer scores being percents
final_score(payload, answers) ==
  LET total_questions == payload.questions.n
  IN IF total_questions > 0
     THEN Frac(total_score(payload, answers), 100 * total_questions)
     ELSE Frac(0, 1)

\* ScoreSpec: validate_answers applied to a generated payload and an answers
\* list, which may repeat a question id or name an id of no question
ScoreInit ==
  /\ AtRest
  /\ call \in [fn : {"validate_answers"},
               payload : UNION { MockPayloads(p) \cup LangChainPayloads(p) : p \in Personas },
               answers : AnswerLists,
               result : {Pending}]

ValidateAnswers ==
  /\ call.fn = "validate_answers"
  /\ call.result = Pending
  /\ call' = [call EXCEPT !.result = [correct |-> validate_answers(call.payload, call.answers),
                                      score   |-> final_score(call.payload, call.answers)]]
  /\ UNCHANGED << delivered_at, pulls, env, db, req, sessions, commands, gen >>

ScoreNext == ValidateAnswers

ScoreSpec == ScoreInit /\ [][ScoreNext]_vars


\* ValidatorSpec: AnswerValidator.validate_answer applied to a student answer
\* (a string or None) and the expected answer looked up in the answer key,
\* for every persona
ValidatorInit ==
  /\ AtRest
  /\ call \in [fn : {"validate_answer"},
               student_answer : Strings \cup {None},
               correct_answer : Strings,
               persona : Personas,
               result : {Pending}]

ValidateAnswer ==
  /\ call.fn = "validate_answer"
  /\ call.result = Pending
  /\ call' = [call EXCEPT !.result = validate_answer(call.student_answer, call.correct_answer,
                                                     call.persona)]
  /\ UNCHANGED << delivered_at, pulls, env, db, req, sessions, commands, gen >>

ValidatorNext == ValidateAnswer

ValidatorSpec == ValidatorInit /\ [][ValidatorNext]_vars


\* ------------------------------------------------------------- properties
\* request r got past the status check and evaluated its answers
Evaluated(r) == req[r].session_progress.questions_attempted > 0

\* request r takes a step of its own (the stale mark is set by the others)
Moves(r) == req'[r].pc # req[r].pc

ChallengeFrame ==
  /\ db'.status = db.status
  /\ db'.attempts_left = db.attempts_left
  /\ db'.payload.has_progress = db.payload.has_progress
  /\ db'.payload.session_progress = db.payload.session_progress

\* C1 Terminal stability: once the status is passed, failed or expired, no
\* step changes status, attempts_left or session_progress, and every
\* submission that starts then ends at once with challenge_closed.
TerminalStability ==
  [][ db.status \in Terminal =>
        /\ ChallengeFrame
        /\ \A r \in Requests :
             (req[r].pc = "idle" /\ Moves(r)) =>
               /\ req'[r].pc = "done"
               /\ req'[r].resp.kind = "challenge_closed" ]_vars

ClosedRejected ==
  \E r \in Requests : /\ req[r].resp.kind = "challenge_closed"
                      /\ db.status \in Terminal

\* C2 Monotonic attempts: attempts_left of a challenge never increases, is
\* never negative, and is 0 whenever the status is failed.
MonotonicAttempts ==
  [][ /\ db.status # "none" => db'.attempts_left <= db.attempts_left
      /\ db'.attempts_left >= 0
      /\ db'.status = "failed" => db'.attempts_left = 0 ]_vars

FailedAfterSeveralAttempts ==
  /\ db.status = "failed"
  /\ db.attempts_left = 0
  /\ env.challenge_attempts >= 2

\* C3 Progress bound: the stored and the counted questions_answered_correctly
\* never exceed total_questions_required, and an evaluated submission ends in
\* ALLOW exactly when its counted questions_answered_correctly has reached
\* total_questions_required.
ProgressBound ==
  /\ db.payload.session_progress.questions_answered_correctly
       <= db.payload.session_progress.total_questions_required
  /\ \A r \in Requests :
       /\ req[r].session_progress.questions_answered_correctly
            <= req[r].session_progress.total_questions_required
       /\ (req[r].pc = "done" /\ Evaluated(r)) =>
            (req[r].resp.kind = "ALLOW" <=>
               req[r].session_progress.questions_answered_correctly
                 >= req[r].session_progress.total_questions_required)

AllowAtEquality ==
  \E r \in Requests :
    /\ req[r].resp.kind = "ALLOW"
    /\ req[r].session_progress.total_questions_required = 2
    /\ req[r].session_progress.questions_answered_correctly = 2

\* C4 A submission evaluated as correct never takes the failing branch and
\* never gets DENY: only incorrect submissions fail a challenge.
CorrectNeverDenied ==
  \A r \in Requests :
    (req[r].pc \in {"decrement_last", "set_failed"} \/ req[r].resp.kind = "DENY")
      => ~req[r].correct

\* C5 A submission evaluated as correct leaves attempts_left unchanged in
\* every step it takes.
CorrectKeepsAttempts ==
  [][ \A r \in Requests :
        (req[r].correct /\ Moves(r)) => db'.attempts_left = db.attempts_left ]_vars

\* C6 The attempts_left of a DENY with reason incorrect_answer is the value
\* stored on the challenge after the decrement.
DenyReportsStoredAttempts ==
  \A r \in Requests :
    (req[r].pc = "done" /\ req[r].resp.kind = "DENY"
       /\ req[r].resp.reason = "incorrect_answer")
      => req[r].resp.attempts_left = db.attempts_left

\* C7 A correct submission that leaves questions_answered_correctly below
\* total_questions_required and whose next question was generated is answered
\* with CONTINUE, the challenge stays open, the stored questions and answer
\* key are the generated ones and the stored session_progress is the one
\* returned.
CorrectContinues ==
  \A r \in Requests :
    ( /\ req[r].pc = "done"
      /\ req[r].correct
      /\ req[r].resp.kind # "error"
      /\ req[r].session_progress.questions_answered_correctly
           < req[r].session_progress.total_questions_required )
    => /\ req[r].resp.kind = "CONTINUE"
       /\ db.status = "open"
       /\ db.payload.questions = req[r].resp.questions
       /\ db.payload.answer_key = req[r].resp.questions
       /\ db.payload.session_progress = req[r].resp.progress

\* C8 A submission with an empty answers list changes neither status nor
\* attempts_left nor session_progress of the challenge.
EmptyAnswersRejected ==
  [][ \A r \in Requests :
        (req[r].pc # "idle" /\ req[r].n_answers = 0 /\ Moves(r)) => ChallengeFrame ]_vars

\* C9 No request commits a change of the challenge row while the copy of the
\* row it works on is stale.
NoStaleWrite ==
  [][ \A r \in Requests : (Moves(r) /\ db' # db) => ~req[r].stale ]_vars

\* C10 The access grant is made at most once per challenge: at most one
\* session row and at most one grant_session command.
GrantAtMostOnce ==
  /\ sessions <= 1
  /\ commands <= 1


\* C11 Fallback ordering: whenever the AI-judge call fails, the verdict for
\* the answer comes from the rule-based engine, computed against the answer
\* key entry of the question.
FallbackToRuleBased ==
  (call.fn = "judge_answer" /\ call.result # Pending /\ call.ai.outcome = "raises")
    => call.result = judge_answer_rule_only(call.ai, call.options, call.student_answer,
                                            call.correct_answer, call.persona)


\* the registry positions of the configs that survive the filter of the call
Surviving == { i \in 1..Len(AgentConfigs) : matches(AgentConfigs[i], call.context, call.key) }

\* the first position, in registry order, of a non-empty set of positions
FirstOf(S) == CHOOSE i \in S : \A j \in S : i <= j

\* C12 Selection priority: among the configs that survive the filter, the
\* selected one is the first in registry order whose provider is the preferred
\* backend if there is one, otherwise the first non-mock one if there is one,
\* otherwise the first surviving one; the selection is fixed by the context
\* and the availability.
SelectionPriority ==
  (call.fn = "select_agent" /\ call.agent # "pending") =>
    LET preferred == { i \in Surviving : AgentConfigs[i].llm_provider = call.prefer }
        non_mock  == { i \in Surviving : AgentConfigs[i].llm_provider # "mock" }
    IN /\ preferred # {} => call.selected = FirstOf(preferred)
       /\ (preferred = {} /\ non_mock # {}) => call.selected = FirstOf(non_mock)
       /\ (preferred = {} /\ non_mock = {} /\ Surviving # {}) =>
            call.selected = FirstOf(Surviving)
       /\ Surviving = {} => call.selected = 0

\* two configs of the preferred backend survive and the earlier one is selected
FirstOfTwoPreferred ==
  /\ call.fn = "select_agent"
  /\ call.agent # "pending"
  /\ call.selected = 1
  /\ 4 \in Surviving
  /\ AgentConfigs[4].llm_provider = call.prefer

\* C13 The selected config passes every filter: its persona is the persona
\* of the context, it supports the subject and the difficulty the context
\* sets, and its provider is available; and when the preferred backend is
\* unavailable while another config qualifies for the persona, that config is
\* selected and no error is raised.
SelectedPassesFilters ==
  (call.fn = "select_agent" /\ call.agent # "pending") =>
    LET Available(provider) == provider = "mock" \/ (provider = "openai" /\ call.key)
        Qualifies(c) ==
          /\ c.persona = call.context.persona
          /\ call.context.subject # "none" => call.context.subject \in c.subjects
          /\ call.context.difficulty # "none" => call.context.difficulty \in c.difficulty_range
          /\ Available(c.llm_provider)
        qualifying == { i \in 1..Len(AgentConfigs) : Qualifies(AgentConfigs[i]) }
    IN /\ call.selected # 0 => call.selected \in qualifying
       /\ (~Available(call.prefer) /\ qualifying # {}) =>
            /\ call.selected \in qualifying
            /\ call.agent # "error"

\* the preferred backend has no credential and the mock config is selected
FallbackSelected ==
  /\ call.fn = "select_agent"
  /\ call.agent = "mock"
  /\ call.prefer = "openai"
  /\ ~call.key
  /\ call.selected = 5


\* C14 The first submission to a freshly generated challenge, evaluated as
\* correct (every question answered correctly), is answered with ALLOW and
\* the challenge becomes passed.  (Challenges created with at least two
\* attempts, so that the last-attempt branch plays no part.)
FirstCorrectSubmissionGrants ==
  \A r \in Requests :
    ( /\ req[r].pc = "done"
      /\ req[r].correct
      /\ req[r].session_progress.questions_attempted = 1
      /\ env.challenge_attempts >= 2
      /\ req[r].resp.kind # "error" )
    => /\ req[r].resp.kind = "ALLOW"
       /\ db.status = "passed"


\* C15 A new challenge is stored with status open, with attempts_left equal
\* to the max_attempts of its persona's policy, and with a session_progress
\* entry that counts no question answered and none attempted.
CreatedWithPolicyAttempts ==
  [][ (db.status = "none" /\ db'.status # "none") =>
        /\ db'.status = "open"
        /\ db'.attempts_left = persona_policies(db'.payload.metadata.persona).max_attempts
        /\ db'.payload.has_progress
        /\ db'.payload.session_progress.questions_answered_correctly = 0
        /\ db'.payload.session_progress.questions_attempted = 0 ]_vars


\* C16 The aggregate score returned by validate_answers lies in [0,1] for
\* every answers list, lists that repeat a question id or name an id of no
\* question included.
AggregateScoreInUnitInterval ==
  (call.fn = "validate_answers" /\ call.result # Pending) =>
    /\ call.result.score.num >= 0
    /\ FracGeq(Frac(1, 1), call.result.score)


\* C17 For every persona and every expected answer, the empty string
\* included, an empty or None student answer is judged incorrect with score 0.
EmptyAnswerScoresZero ==
  ( /\ call.fn = "validate_answer"
    /\ call.result # Pending
    /\ call.student_answer \in { << >>, None } )
  => /\ ~call.result.correct
     /\ FracIsZero(call.result.score)


\* C18 A generate request whose persona is none of tutor, maternal, general
\* is answered with a client error (a 4xx status) and stores no challenge.
InvalidPersonaIsClientError ==
  (gen.status # 0 /\ gen.persona \notin Personas) =>
    /\ gen.status \in 400..499
    /\ db = NoRow


\* C19 A submission evaluated as incorrect that is not the last attempt
\* (attempts_left >= 2) leaves the stored questions and answer key unchanged
\* and the status open in every step it takes.
WrongAnswerKeepsQuestions ==
  [][ \A r \in Requests :
        ( /\ Moves(r)
          /\ Evaluated(r)
          /\ ~req[r].correct
          /\ req[r].ch.attempts_left >= 2 )
        => /\ db'.payload.questions = db.payload.questions
           /\ db'.payload.answer_key = db.payload.answer_key
           /\ db'.status = "open" ]_vars

WrongAnswerDenied ==
  \E r \in Requests :
    /\ req[r].pc = "done"
    /\ ~req[r].correct
    /\ req[r].resp.kind = "DENY"
    /\ req[r].resp.reason = "incorrect_answer"
    /\ db.status = "open"
    /\ db.attempts_left >= 1


\* C20 When generating the next question fails in the CONTINUE branch, the
\* failure is surfaced to the caller as an error and the challenge stays open
\* with the question set and answer key it had.
GenerationFailureKeepsChallenge ==
  [][ \A r \in Requests :
        ( /\ req[r].pc = "generate_next"
          /\ Moves(r)
          /\ req'[r].resp.kind # "CONTINUE" )
        => /\ req'[r].resp.kind = "error"
           /\ db'.status = "open"
           /\ db'.payload.questions = db.payload.questions
           /\ db'.payload.answer_key = db.payload.answer_key ]_vars

GenerationFailureSurfaced ==
  \E r \in Requests :
    /\ req[r].pc = "done"
    /\ Evaluated(r)
    /\ req[r].correct
    /\ req[r].resp.kind = "error"
    /\ db.status = "open"
    /\ db.payload.questions = req[r].ch.payload.questions

\* C21 When the generation of the next question fails during a submission,
\* the stored challenge, session_progress included, equals the row the
\* submission loaded: nothing of the failed submission is persisted.
GenerationFailureLeavesRow ==
  \A r \in Requests :
    ( /\ req[r].pc = "done"
      /\ Evaluated(r)
      /\ req[r].resp.kind = "error" )
    => db = req[r].loaded


\* C22 The agent that evaluates the answers of a challenge is of the kind
\* that generated its questions (metadata.agent_type), the availability of
\* the completion service being the same at both requests.
EvaluatorIsGenerator ==
  \A r \in Requests :
    req[r].agent # "none"
    => req[r].agent = req[r].loaded.payload.metadata.agent_type

\* C23 select_agent raises the no-agent error only when no config survives
\* the filter and the fallback to the mock agent is switched off; with the
\* fallback switched on it returns an agent for every context, the mock
\* agent when nothing matches; with the router switched off it always
\* returns the mock agent.
NoProviderOnlyWithoutFallback ==
  (call.fn = "select_agent_under" /\ call.agent # "pending") =>
    /\ call.agent = "error" => (call.enabled /\ Surviving = {} /\ ~call.fallback)
    /\ call.fallback => call.agent # "error"
    /\ (call.fallback /\ Surviving = {}) => call.agent = "mock"
    /\ ~call.enabled => call.agent = "mock"

\* nothing matches and the fallback is off: the error is raised
NoProviderRaised ==
  /\ call.fn = "select_agent_under"
  /\ call.enabled
  /\ ~call.fallback
  /\ Surviving = {}
  /\ call.agent = "error"

\* C24 The evaluation of a submission never raises into challenge_answer:
\* for every agent, stored payload and answer, validate_answers returns a
\* verdict produced by one of its tiers.
EvaluationNeverRaises ==
  (call.fn = "agent_validate_answers" /\ call.result # Pending) =>
    /\ ~call.result.raised
    /\ call.result.tier \in {"ai", "literal", "rule", "aggregate", "none"}

\* C25 Every payload returned by generate_challenge has at least one
\* question, exactly one when LangChainAgent returned it, pairwise distinct
\* question ids, and an answer key whose ids are exactly the ids of its
\* questions.
GeneratedPayloadWellFormed ==
  (call.fn = "generate_challenge" /\ call.result # Pending) =>
    LET questions == call.result.questions
        ids       == { questions[i] : i \in 1..Len(questions) }
    IN /\ Len(questions) >= 1
       /\ call.agent = "langchain" => Len(questions) = 1
       /\ Cardinality(ids) = Len(questions)
       /\ call.result.answer_key = ids

\* no submission is between two of its commits
Settled == \A r \in Requests : req[r].pc \in {"idle", "done"}

answered_correctly(row) ==
  IF row.payload.has_progress
  THEN row.payload.session_progress.questions_answered_correctly ELSE 0

\* C27 A challenge created with attempts_left = a and
\* total_questions_required = t is passed or failed after at most a + t - 1
\* evaluated submissions.  The bound is the length of the longest descent of
\* attempts_left + (t - questions_answered_correctly): every evaluated
\* submission that leaves the challenge open has used an attempt or has
\* counted a correct answer in the stored row; a submission that leaves both
\* as it found them can be repeated without end.
SubmissionUsesAttemptOrCountsAnswer ==
  \A r \in Requests :
    ( /\ req[r].pc = "done"
      /\ Evaluated(r)
      /\ db.status = "open" )
    => \/ db.attempts_left < req[r].loaded.attempts_left
       \/ answered_correctly(db) > answered_correctly(req[r].loaded)

\* C28 Passing is atomic: once the request that passed a challenge has
\* finished, with its response or with an error between its commits, the
\* passed challenge has an access session and a grant_session command.
PassedHasSessionAndGrant ==
  (Settled /\ db.status = "passed") => (sessions >= 1 /\ commands >= 1)

DeliveredAtMostOnce ==
  /\ \A p, q \in Pulls :
       (p # q /\ pulls[p].pc = "done" /\ pulls[q].pc = "done")
       => pulls[p].out \cap pulls[q].out = {}
  /\ (\A p \in Pulls : pulls[p].pc \in {"idle", "done"})
     => delivered_at \subseteq UNION { pulls[p].out : p \in Pulls }

====
